---- MODULE Spec2Model ----
(***************************************************************************)
(* AudioRouter: the routing engine (audiorouter/audio/engine.py), the      *)
(* device catalog (audiorouter/audio/devices.py) and the handlers of the   *)
(* application that drive them (audiorouter/app.py,                        *)
(* audiorouter/gui/settings_window.py).                                    *)
(*                                                                         *)
(* The control thread (the Qt main thread) runs one handler at a time; its *)
(* position inside start/stop/reconnect/_start_streams/_close_streams is   *)
(* the continuation stack `stack`.  The PortAudio callbacks of every open, *)
(* active stream run concurrently with it.                                 *)
(***************************************************************************)
EXTENDS Integers, Sequences, FiniteSets, TLC

\* ------------------------------------------------------------------ bounds
MaxFrames == 2       \* frames the host delivers to capture callbacks
MaxStreamFrames == 9 \* the same, where only the callbacks and start/stop/reconnect run
MaxStreams == 4      \* stream slots of the audio subsystem
MaxDevices == 3      \* devices of a host in the specification of the catalog's lookups

\* ------------------------------------------------------- program constants
QueueMaxSize == 8            \* queue.Queue(maxsize=8)
SampleWidth == 2             \* paInt16: 2 bytes per sample
DefaultSampleRate == 48000
DefaultBufferSize == 512


\* -------------------------------------------------------------- devices
\* A device name is the sequence of its words; the marker test
\* ("BlackHole" in name) looks for the marker word.
Marker == "BlackHole"
NoName == << >>
NameBlackHole2ch == <<"BlackHole", "2ch">>
NameSpeakers == <<"MacBook", "Pro", "Speakers">>

HostDev(n, i, o) == [name |-> n, max_input_channels |-> i, max_output_channels |-> o]

\* Device sets the host can present (hot-plug moves between them).
HostConfigs ==
    { << HostDev(NameBlackHole2ch, 2, 2), HostDev(NameSpeakers, 0, 2) >>,
      << HostDev(NameSpeakers, 0, 2) >>,
      << HostDev(NameBlackHole2ch, 2, 2) >> }

\* Device sets for the catalog's lookups: up to MaxDevices devices, each with
\* one of three names (two differ only in case) and with input channels,
\* output channels or both; names may repeat.
NameLowerCase == <<"blackhole", "2ch">>
CatalogNames == {NameBlackHole2ch, NameSpeakers, NameLowerCase}
CatalogDevices ==
    {HostDev(n, c[1], c[2]) : n \in CatalogNames, c \in {<<2, 0>>, <<0, 2>>, <<2, 2>>}}
CatalogHosts == UNION {[1..n -> CatalogDevices] : n \in 0..MaxDevices}

NoDevice == [index |-> -1, name |-> NoName, max_input_channels |-> 0, max_output_channels |-> 0]

Descriptor(h, i) ==
    [index |-> i - 1, name |-> h[i].name,
     max_input_channels |-> h[i].max_input_channels,
     max_output_channels |-> h[i].max_output_channels]

Contains(name, word) == \E i \in 1..Len(name) : name[i] = word

RECURSIVE Filter(_, _, _)
\* devices 1..n of host h satisfying the test, in enumeration order
Filter(h, n, kind) ==
    IF n = 0 THEN << >>
    ELSE LET d == Descriptor(h, n)
             keep == CASE kind = "input" -> d.max_input_channels > 0
                       [] kind = "output" -> d.max_output_channels > 0
                       [] OTHER -> Contains(d.name, Marker)
         IN IF keep THEN Append(Filter(h, n - 1, kind), d) ELSE Filter(h, n - 1, kind)

RECURSIVE HashOf(_)
HashOf(devs) ==
    IF devs = << >> THEN << >>
    ELSE << <<Head(devs).name, Head(devs).index>> >> \o HashOf(Tail(devs))

\* _generate_device_hash: "name:index;" of the cached inputs, then of the cached outputs
GenerateDeviceHash(ins, outs) == HashOf(ins) \o HashOf(outs)

NoFail == -1
\* number of devices enumerated before the audio subsystem query raises
FailPoints(h) == 0..(IF Len(h) = 0 THEN 0 ELSE Len(h) - 1)

\* ------------------------------------------------------------------ state
VARIABLES
    host,               \* the host's current device list
    input_devices, output_devices, blackhole_devices, last_device_hash,  \* DeviceManager
    settings,           \* Settings.settings (the keys the engine uses)
    running, stream_in, stream_out, audio_thread_alive,
    buffer_size, sample_rate, channels, input_device, output_device,
    audio_buffer,       \* AudioEngine
    pa_streams,         \* the audio subsystem's stream slots, with each stream's callback position
    captured,           \* frames delivered to capture callbacks so far
    played,             \* the last playback callback: what it was given and what it returned
    taken,              \* frames taken out of the buffer by playback callbacks and by _close_streams
    stack, was_running, exc, ret,   \* control thread: continuation, locals, result
    op, opened, pre_running, poll,   \* history of the current handler
    close_skipped,      \* a stop_stream() of the current handler raised, so close() was not called
    lookup,             \* the last lookup made in the catalog: its arguments and its result
    routing_state, previous_output_device, audio_switch_available,   \* AudioRouterApp
    os_output,          \* the operating system's default output device (its name)
    session             \* history of the current start_routing / stop_routing

dmVars == <<input_devices, output_devices, blackhole_devices, last_device_hash>>
cfgVars == <<buffer_size, sample_rate, channels, input_device, output_device>>
engVars == <<running, stream_in, stream_out, audio_thread_alive, cfgVars>>
cbVars == <<audio_buffer, pa_streams, captured, played, taken>>
ctlVars == <<stack, was_running, exc, ret>>
histVars == <<op, opened, pre_running, poll, close_skipped>>
appVars == <<routing_state, previous_output_device, audio_switch_available, os_output, session>>
vars == <<host, dmVars, settings, engVars, cbVars, ctlVars, histVars, lookup, appVars>>


\* ------------------------------------------------- DeviceManager operators
\* refresh_devices: the three lists are rebuilt from the host's enumeration; when
\* the query raises after `fail` devices the lists stay as far as they were
\* filled and the stored hash is not regenerated.
RefreshedInputs(h, fail) == Filter(h, IF fail = NoFail THEN Len(h) ELSE fail, "input")
RefreshedOutputs(h, fail) == Filter(h, IF fail = NoFail THEN Len(h) ELSE fail, "output")
RefreshedBlackholes(h, fail) == Filter(h, IF fail = NoFail THEN Len(h) ELSE fail, "blackhole")
RefreshedHash(h, fail, old) ==
    IF fail = NoFail THEN GenerateDeviceHash(RefreshedInputs(h, fail), RefreshedOutputs(h, fail))
    ELSE old

RefreshDevicesEffect(fail) ==
    /\ input_devices' = RefreshedInputs(host, fail)
    /\ output_devices' = RefreshedOutputs(host, fail)
    /\ blackhole_devices' = RefreshedBlackholes(host, fail)
    /\ last_device_hash' = RefreshedHash(host, fail, last_device_hash)

\* check_device_changes compares the hash of the CACHED lists with the stored hash
DeviceChangesDetected == GenerateDeviceHash(input_devices, output_devices) # last_device_hash

\* Variant: the last loopback device is taken.
GetLastBlackholeDevice ==
    IF blackhole_devices # << >> THEN blackhole_devices[Len(blackhole_devices)] ELSE NoDevice

GetDefaultBlackholeDevice ==
    IF blackhole_devices # << >> THEN blackhole_devices[1] ELSE NoDevice

\* the first device of devs whose position is in hits (`for device in devices:
\* if ...: return device`), NoDevice (None) when there is none
FirstMatch(devs, hits) ==
    IF hits # {}
    THEN devs[CHOOSE i \in hits : \A j \in hits : i <= j]
    ELSE NoDevice

\* Variant: the first output device is taken, loopback or not.
GetFirstOutputDevice ==
    IF output_devices # << >> THEN output_devices[1] ELSE NoDevice

GetDefaultOutputDevice ==
    IF output_devices # << >>
    THEN LET notLoop == {i \in 1..Len(output_devices) : ~Contains(output_devices[i].name, Marker)}
         IN IF notLoop # {}
            THEN FirstMatch(output_devices, notLoop)
            ELSE output_devices[1]
    ELSE NoDevice

\* Variant: the name is looked up among the devices of both kinds.
GetDeviceByNameAnyKind(name, output) ==
    LET devices == IF output THEN output_devices \o input_devices
                   ELSE input_devices \o output_devices
    IN FirstMatch(devices, {i \in 1..Len(devices) : devices[i].name = name})

GetDeviceByName(name, output) ==
    LET devices == IF output THEN output_devices ELSE input_devices
    IN FirstMatch(devices, {i \in 1..Len(devices) : devices[i].name = name})

\* ------------------------------------------------------- audio subsystem
\* `since` is the number of frames captured before the stream's pair was opened
NoStream == [kind |-> "none", device |-> -1, name |-> NoName, rate |-> 0, channels |-> 0,
             frames |-> 0, active |-> FALSE, pc |-> "idle", frame |-> 0, since |-> 0]
NoHandle == 0
StreamIds == 1..MaxStreams
FreeId == CHOOSE i \in StreamIds : pa_streams[i] = NoStream /\ \A j \in 1..(i - 1) : pa_streams[j] # NoStream

OpenStreams(kind) == {i \in StreamIds : pa_streams[i].kind = kind}

\* The subsystem accepts an open when it has a free slot and the index names a
\* present device that has the requested number of channels in the requested
\* direction.
HostAccepts(kind, index, chans) ==
    /\ \E i \in StreamIds : pa_streams[i] = NoStream
    /\ index + 1 \in 1..Len(host)
    /\ chans <= (IF kind = "in" THEN host[index + 1].max_input_channels
                 ELSE host[index + 1].max_output_channels)

\* parameters of the two py_audio.open calls of _start_streams
InputStreamParams == [rate |-> sample_rate, channels |-> channels, frames |-> buffer_size]
\* Variant: the playback stream is opened at the default rate.
OutputStreamParamsDefaultRate == [rate |-> DefaultSampleRate, channels |-> channels, frames |-> buffer_size]

OutputStreamParams == [rate |-> sample_rate, channels |-> channels, frames |-> buffer_size]

NewStream(kind, dev, p) ==
    [kind |-> kind, device |-> dev.index,
     name |-> IF dev.index + 1 \in 1..Len(host) THEN host[dev.index + 1].name ELSE NoName,
     rate |-> p.rate, channels |-> p.channels, frames |-> p.frames,
     active |-> TRUE, pc |-> "idle", frame |-> 0,
     since |-> IF kind = "out" /\ stream_in # NoHandle THEN pa_streams[stream_in].since
               ELSE captured]

\* Variant: a last in, first out queue.
QueuePutFront(q, x) == <<x>> \o q

\* queue.Queue is first in, first out
QueuePut(q, x) == Append(q, x)
QueueGet(q) == Tail(q)

\* Variant: one zero byte per sample.
SilenceBytesNarrow(frame_count) == frame_count * channels

\* silence of the output callback: b'\x00' * (frame_count * self.channels * 2)
SilenceBytes(frame_count) == frame_count * channels * SampleWidth

NoPlayed == [kind |-> "none", frame |-> 0, last |-> 0, bytes |-> 0, code |-> "none", frame_count |-> 0,
             stream_channels |-> 0, head |-> 0]

\* What the current handler did to the catalog (kind: "check" for
\* check_device_changes, "refresh" for refresh_devices), with what it saw and
\* returned, and the same of the handler before it (prev_*).
DefaultPoll == [kind |-> "none", stale |-> FALSE, detected |-> FALSE, changed |-> FALSE,
                failed |-> FALSE, prev_kind |-> "none", prev_detected |-> FALSE,
                prev_changed |-> FALSE]

NoLookup == [fn |-> "none", name |-> NoName, output |-> FALSE, result |-> NoDevice]

\* What start_routing / stop_routing has done so far: the outcome of the query
\* for the current default output ("none": not made), of the switch command and
\* of the restore command, the default output when the handler was entered and
\* when the switch command was issued, the outcome of the engine's start()
\* ("none": not returned yet) now and when the switch command was issued,
\* whether the engine was running when the restore command was issued, the
\* error the handler caught, and for stop_routing the outcome of the query of
\* the start_routing that began the session.  Kept from handler to handler:
\* the default output found at construction (`original`), and whether
\* since construction every command of the switch tool has succeeded and
\* nothing but the application has changed the default output (`clean`).
NoSession == [query |-> "none", switch |-> "none", restore |-> "none",
              query_at_start |-> "none", original |-> NoName, clean |-> TRUE,
              default_at_entry |-> NoName, default_at_switch |-> NoName,
              engine |-> "none", engine_at_switch |-> "none",
              running_at_restore |-> FALSE, error |-> "none"]

\* ------------------------------------------------------------------- Init
\* The state after construction of DeviceManager, Settings, AudioEngine and
\* AudioRouterApp, the host presenting one of `hosts`, the switch tool found
\* or not (`tools`), the default output being one of `defaults`, and the
\* settings file holding one of `inputs` and one of `outputs` as device names
\* (NoName: no preference stored).
InitStored(hosts, tools, defaults, inputs, outputs) ==
    /\ host \in hosts
    /\ lookup = NoLookup
    /\ routing_state = "STOPPED"
    /\ previous_output_device = NoName
    /\ audio_switch_available \in tools
    /\ os_output \in defaults
    /\ session = [NoSession EXCEPT !.original = os_output]
    /\ input_devices = RefreshedInputs(host, NoFail)
    /\ output_devices = RefreshedOutputs(host, NoFail)
    /\ blackhole_devices = RefreshedBlackholes(host, NoFail)
    /\ last_device_hash = RefreshedHash(host, NoFail, << >>)
    /\ settings \in [input_device : inputs, output_device : outputs,
                    sample_rate : {DefaultSampleRate}, buffer_size : {DefaultBufferSize},
                    channels : {2}]
    /\ running = FALSE
    /\ stream_in = NoHandle
    /\ stream_out = NoHandle
    /\ audio_thread_alive = FALSE
    /\ buffer_size = settings.buffer_size
    /\ sample_rate = settings.sample_rate
    /\ channels = settings.channels
    /\ input_device = NoDevice
    /\ output_device = NoDevice
    /\ audio_buffer = << >>
    /\ pa_streams = [i \in StreamIds |-> NoStream]
    /\ captured = 0
    /\ played = NoPlayed
    /\ taken = 0
    /\ stack = << >>
    /\ was_running = FALSE
    /\ exc = "none"
    /\ ret = "none"
    /\ op = "init"
    /\ opened = 0
    /\ pre_running = FALSE
    /\ poll = DefaultPoll
    /\ close_skipped = FALSE

\* the state after construction with no device preference stored
InitFrom(hosts, tools, defaults) == InitStored(hosts, tools, defaults, {NoName}, {NoName})

\* The engine and the catalog do not read the application's fields: the
\* specifications about them start with the switch tool present and the
\* speakers as the default output.
Init == InitFrom(HostConfigs, {TRUE}, {NameSpeakers})

\* ---------------------------------------------------- control thread steps
Top == Head(stack)
Continue(labels) == stack' = labels \o Tail(stack)
Return == stack' = Tail(stack)

\* a handler is entered only when the control thread is free
Call(name, entry) ==
    /\ stack = << >>
    /\ stack' = entry
    /\ op' = name
    /\ ret' = "none"
    /\ exc' = "none"
    /\ opened' = 0
    /\ pre_running' = running
    /\ close_skipped' = FALSE

\* start(), lines 41-71: the running check, device resolution, the two validity
\* checks and the sample rate; then _start_streams, which first closes streams.
\* Variant: a configured input name that is not found falls back to the default.
StartInputFallsBack ==
    IF settings.input_device # NoName /\ GetDeviceByName(settings.input_device, FALSE) # NoDevice
    THEN GetDeviceByName(settings.input_device, FALSE)
    ELSE GetDefaultBlackholeDevice

StartResolvedInput ==
    IF settings.input_device # NoName
    THEN GetDeviceByName(settings.input_device, FALSE)
    ELSE GetDefaultBlackholeDevice

\* Variant: a descriptor handed to set_output_device is kept when there is one.
StartKeepsOutput ==
    IF output_device # NoDevice THEN output_device
    ELSE IF settings.output_device # NoName
    THEN GetDeviceByName(settings.output_device, TRUE)
    ELSE GetDefaultOutputDevice

StartResolvedOutput ==
    IF settings.output_device # NoName
    THEN GetDeviceByName(settings.output_device, TRUE)
    ELSE GetDefaultOutputDevice

\* Variant: the validity checks let every resolution through.
StartRejectsNothing(device) == FALSE

\* start(), lines 58 and 62: `if not self.input_device`, `if not self.output_device`
StartRejects(device) == device = NoDevice

\* Variant: start() goes on whether or not the engine is running.
StartRefusedNever == FALSE

\* start(), line 41: `if self.running`
StartRefused == running

StartEntry ==
    /\ stack # << >> /\ Top = "start"
    /\ IF StartRefused
       THEN /\ ret' = "False"
            /\ Return
            /\ UNCHANGED <<input_device, output_device, sample_rate, exc>>
       ELSE /\ input_device' = StartResolvedInput
            /\ output_device' = StartResolvedOutput
            /\ IF StartRejects(StartResolvedInput)
               THEN /\ exc' = "ValueError_input"
                    /\ Continue(<<"stop">>)
                    /\ UNCHANGED sample_rate
               ELSE IF StartRejects(StartResolvedOutput)
               THEN /\ exc' = "ValueError_output"
                    /\ Continue(<<"stop">>)
                    /\ UNCHANGED sample_rate
               ELSE /\ sample_rate' = settings.sample_rate
                    /\ Continue(<<"close_in", "open_in">>)
                    /\ UNCHANGED exc
            /\ UNCHANGED ret
    /\ UNCHANGED <<lookup, appVars, host, dmVars, settings, running, stream_in, stream_out, audio_thread_alive,
                   buffer_size, channels, cbVars, was_running, histVars>>

\* Variant: the error of py_audio.open goes straight to the caller.
OnOpenFailureRaises == << >>

\* what follows a failed py_audio.open: the except clause of _start_streams
\* (_close_streams, raise), then the except clause of start (stop(), raise)
OnOpenFailure == <<"close_in", "stop">>

\* _start_streams, lines 166-175
OpenInputStream ==
    /\ stack # << >> /\ Top = "open_in"
    /\ \/ /\ HostAccepts("in", input_device.index, InputStreamParams.channels)
          /\ stream_in' = FreeId
          /\ pa_streams' = [pa_streams EXCEPT ![FreeId] = NewStream("in", input_device, InputStreamParams)]
          /\ opened' = opened + 1
          /\ Continue(<<"open_out">>)
          /\ UNCHANGED exc
       \/ /\ exc' = "StreamOpenError"
          /\ Continue(OnOpenFailure)
          /\ UNCHANGED <<stream_in, pa_streams, opened>>
    /\ UNCHANGED <<lookup, appVars, host, dmVars, settings, running, stream_out, audio_thread_alive, cfgVars,
                   audio_buffer, captured, played, taken, was_running, ret, op, pre_running, poll, close_skipped>>

\* _start_streams, lines 178-187
OpenOutputStream ==
    /\ stack # << >> /\ Top = "open_out"
    /\ \/ /\ HostAccepts("out", output_device.index, OutputStreamParams.channels)
          /\ stream_out' = FreeId
          /\ pa_streams' = [pa_streams EXCEPT ![FreeId] = NewStream("out", output_device, OutputStreamParams)]
          /\ opened' = opened + 1
          /\ Continue(<<"start_finish">>)
          /\ UNCHANGED exc
       \/ /\ exc' = "StreamOpenError"
          /\ Continue(OnOpenFailure)
          /\ UNCHANGED <<stream_out, pa_streams, opened>>
    /\ UNCHANGED <<lookup, appVars, host, dmVars, settings, running, stream_in, audio_thread_alive, cfgVars,
                   audio_buffer, captured, played, taken, was_running, ret, op, pre_running, poll, close_skipped>>

\* start(), lines 74-80
StartFinish ==
    /\ stack # << >> /\ Top = "start_finish"
    /\ running' = TRUE
    /\ audio_thread_alive' = TRUE
    /\ ret' = "True"
    /\ Return
    /\ UNCHANGED <<lookup, appVars, host, dmVars, settings, stream_in, stream_out, cfgVars, cbVars,
                   was_running, exc, histVars>>

\* Variant: stop() returns without closing the streams.
StopTeardownNone == << >>

\* stop(), line 97: self._close_streams()
StopTeardown == <<"close_in">>

\* stop(), lines 90-94; the processing thread sees running = False within its
\* 0.1 s sleep, inside the 1.0 s of the join.  _close_streams follows.
StopEntry ==
    /\ stack # << >> /\ Top = "stop"
    /\ running' = FALSE
    /\ audio_thread_alive' = FALSE
    /\ Continue(StopTeardown)
    /\ UNCHANGED <<lookup, appVars, host, dmVars, settings, stream_in, stream_out, cfgVars, cbVars,
                   was_running, exc, ret, histVars>>

\* Variant: the handle is dropped without stopping or closing the stream.
ReleaseStreamKeeps(streams, sid) == streams

\* stream.stop_stream(); stream.close() of _close_streams: the subsystem's slot
\* of the stream is released.  When stop_stream() raises, close() is skipped;
\* the binding has then released the stream itself before raising.
ReleaseStream(streams, sid) == [streams EXCEPT ![sid] = NoStream]

\* _close_streams, lines 199-206.  stop_stream() returns once the stream's
\* callback in progress has finished.
CloseInputStream ==
    /\ stack # << >> /\ Top = "close_in"
    /\ IF stream_in # NoHandle
       THEN /\ pa_streams[stream_in].pc = "idle"
            /\ pa_streams' = ReleaseStream(pa_streams, stream_in)
            /\ stream_in' = NoHandle
            /\ \E raised \in BOOLEAN : close_skipped' = (close_skipped \/ raised)
       ELSE UNCHANGED <<pa_streams, stream_in, close_skipped>>
    /\ Continue(<<"close_out">>)
    /\ UNCHANGED <<lookup, appVars, host, dmVars, settings, running, stream_out, audio_thread_alive, cfgVars,
                   audio_buffer, captured, played, taken, was_running, exc, ret, op, opened, pre_running, poll>>

\* _close_streams, lines 209-216
CloseOutputStream ==
    /\ stack # << >> /\ Top = "close_out"
    /\ IF stream_out # NoHandle
       THEN /\ pa_streams[stream_out].pc = "idle"
            /\ pa_streams' = ReleaseStream(pa_streams, stream_out)
            /\ stream_out' = NoHandle
            /\ \E raised \in BOOLEAN : close_skipped' = (close_skipped \/ raised)
       ELSE UNCHANGED <<pa_streams, stream_out, close_skipped>>
    /\ Continue(<<"clear">>)
    /\ UNCHANGED <<lookup, appVars, host, dmVars, settings, running, stream_in, audio_thread_alive, cfgVars,
                   audio_buffer, captured, played, taken, was_running, exc, ret, op, opened, pre_running, poll>>

\* Variant: the loop that empties the queue is never entered.
QueueEmptyAlways(q) == TRUE

\* queue.Queue.empty()
QueueEmpty(q) == q = << >>

\* _close_streams, lines 219-223: one turn of the loop that empties the queue
ClearBuffer ==
    /\ stack # << >> /\ Top = "clear"
    /\ IF QueueEmpty(audio_buffer)
       THEN Return /\ UNCHANGED <<audio_buffer, taken>>
       ELSE audio_buffer' = QueueGet(audio_buffer) /\ taken' = taken + 1 /\ UNCHANGED stack
    /\ UNCHANGED <<lookup, appVars, host, dmVars, settings, engVars, pa_streams, captured, played,
                   was_running, exc, ret, histVars>>

\* reconnect_devices(), lines 102-105
ReconnectEntry ==
    /\ stack # << >> /\ Top = "reconnect"
    /\ was_running' = running
    /\ Continue(IF running THEN <<"stop", "reconnect_sleep">> ELSE <<"reconnect_sleep">>)
    /\ UNCHANGED <<lookup, appVars, host, dmVars, settings, engVars, cbVars, exc, ret, histVars>>

\* Variant: reconnect_devices() always starts the engine.
RestartAlways(was) == TRUE

\* reconnect_devices(), line 110: start again only when it was running
RestartAfterReconnect(was) == was

\* reconnect_devices(), lines 108-112 and 117
ReconnectSleep ==
    /\ stack # << >> /\ Top = "reconnect_sleep"
    /\ IF RestartAfterReconnect(was_running)
       THEN Continue(<<"start", "reconnect_return">>) /\ UNCHANGED ret
       ELSE Return /\ ret' = "True"
    /\ UNCHANGED <<lookup, appVars, host, dmVars, settings, engVars, cbVars, was_running, exc, histVars>>

\* Variant: the error of start() goes on to the caller of reconnect_devices().
ReconnectReraises(e) == e

\* reconnect_devices(), lines 113-115: `except Exception` ends the error
ReconnectCaught(e) == "none"

\* reconnect_devices(), lines 112-115: start's result, or False when it raised
ReconnectReturn ==
    /\ stack # << >> /\ Top = "reconnect_return"
    /\ IF exc # "none"
       THEN exc' = ReconnectCaught(exc) /\ ret' = "False"
       ELSE UNCHANGED <<exc, ret>>
    /\ Return
    /\ UNCHANGED <<lookup, appVars, host, dmVars, settings, engVars, cbVars, was_running, histVars>>

\* ------------------------------------------------------------- handlers
SampleRates == {44100, DefaultSampleRate}
BufferSizes == {256, DefaultBufferSize}

\* descriptors a caller can hold: those of any enumeration of the host
InputDescriptors ==
    UNION {{Descriptor(h, i) : i \in {j \in 1..Len(h) : h[j].max_input_channels > 0}} : h \in HostConfigs}
OutputDescriptors ==
    UNION {{Descriptor(h, i) : i \in {j \in 1..Len(h) : h[j].max_output_channels > 0}} : h \in HostConfigs}

\* the enumeration of the host differs from the cached lists
Stale ==
    \/ input_devices # RefreshedInputs(host, NoFail)
    \/ output_devices # RefreshedOutputs(host, NoFail)

\* AudioEngine.start()
CallStart ==
    /\ Call("start", <<"start">>)
    /\ poll' = DefaultPoll
    /\ UNCHANGED <<lookup, appVars, host, dmVars, settings, engVars, cbVars, was_running>>

\* AudioEngine.stop()
CallStop ==
    /\ Call("stop", <<"stop">>)
    /\ poll' = DefaultPoll
    /\ UNCHANGED <<lookup, appVars, host, dmVars, settings, engVars, cbVars, was_running>>

\* AudioEngine.reconnect_devices()
CallReconnect ==
    /\ Call("reconnect", <<"reconnect">>)
    /\ poll' = DefaultPoll
    /\ UNCHANGED <<lookup, appVars, host, dmVars, settings, engVars, cbVars, was_running>>

\* Variant: a set_* call stores the value and returns.
AfterSetNothing == << >>

\* the last line of each set_* method: return self.reconnect_devices()
AfterSet == <<"reconnect">>

\* set_input_device, set_output_device, set_buffer_size, set_sample_rate: the
\* engine's field, the settings store, then reconnect_devices()
SetInputDevice(device) ==
    /\ Call("set_input_device", AfterSet)
    /\ input_device' = device
    /\ settings' = [settings EXCEPT !.input_device = device.name]
    /\ poll' = DefaultPoll
    /\ UNCHANGED <<lookup, appVars, host, dmVars, running, stream_in, stream_out, audio_thread_alive,
                   buffer_size, sample_rate, channels, output_device, cbVars, was_running>>

SetOutputDevice(device) ==
    /\ Call("set_output_device", AfterSet)
    /\ output_device' = device
    /\ settings' = [settings EXCEPT !.output_device = device.name]
    /\ poll' = DefaultPoll
    /\ UNCHANGED <<lookup, appVars, host, dmVars, running, stream_in, stream_out, audio_thread_alive,
                   buffer_size, sample_rate, channels, input_device, cbVars, was_running>>

SetBufferSize(size) ==
    /\ Call("set_buffer_size", AfterSet)
    /\ buffer_size' = size
    /\ settings' = [settings EXCEPT !.buffer_size = size]
    /\ poll' = DefaultPoll
    /\ UNCHANGED <<lookup, appVars, host, dmVars, running, stream_in, stream_out, audio_thread_alive,
                   sample_rate, channels, input_device, output_device, cbVars, was_running>>

SetSampleRate(rate) ==
    /\ Call("set_sample_rate", AfterSet)
    /\ sample_rate' = rate
    /\ settings' = [settings EXCEPT !.sample_rate = rate]
    /\ poll' = DefaultPoll
    /\ UNCHANGED <<lookup, appVars, host, dmVars, running, stream_in, stream_out, audio_thread_alive,
                   buffer_size, channels, input_device, output_device, cbVars, was_running>>

\* a refresh_devices call completes, or the query raises at some point
RefreshOutcomes(h) == {NoFail} \cup FailPoints(h)

\* the record of a handler's refresh_devices call: whether the query raised, and
\* whether a completed enumeration differs from the lists cached before it
RefreshRecord(fail) ==
    [DefaultPoll EXCEPT !.kind = "refresh", !.failed = (fail # NoFail),
                        !.changed = (fail = NoFail /\ Stale)]

\* refresh_devices as a handler calls it; the except clause (lines 73-74) logs
\* the error and the call returns normally
Refresh ==
    \E fail \in RefreshOutcomes(host) :
        /\ RefreshDevicesEffect(fail)
        /\ poll' = RefreshRecord(fail)

\* Variant: check_device_changes refreshes on every call.
CheckRefreshesAlways(detected) == TRUE

\* check_device_changes, lines 79-82: refresh_devices is called when the hashes differ
CheckRefreshes(detected) == detected

\* AudioRouterApp.check_devices with DeviceManager.check_device_changes
CheckDevices ==
    /\ \E fail \in RefreshOutcomes(host) :
         /\ IF CheckRefreshes(DeviceChangesDetected)
            THEN RefreshDevicesEffect(fail)
            ELSE fail = NoFail /\ UNCHANGED dmVars
         /\ poll' = [kind |-> "check", stale |-> Stale, detected |-> DeviceChangesDetected,
                     changed |-> FALSE, failed |-> (fail # NoFail),
                     prev_kind |-> poll.kind, prev_detected |-> poll.detected,
                     prev_changed |-> poll.changed]
    /\ IF DeviceChangesDetected
       THEN Call("check_devices", <<"reconnect">>)
       ELSE Call("check_devices", << >>)
    /\ UNCHANGED <<lookup, appVars, host, settings, engVars, cbVars, was_running>>

\* AudioRouterApp.reload_devices
ReloadDevices ==
    /\ Call("reload_devices", <<"reconnect">>)
    /\ Refresh
    /\ UNCHANGED <<lookup, appVars, host, settings, engVars, cbVars, was_running>>

\* SettingsWindow.refresh_devices
RefreshDevices ==
    /\ Call("refresh_devices", << >>)
    /\ Refresh
    /\ UNCHANGED <<lookup, appVars, host, settings, engVars, cbVars, was_running>>

\* the texts a device combo box can show: the cached names, or "" when empty
ComboTexts(devs) == IF devs = << >> THEN {NoName} ELSE {devs[i].name : i \in 1..Len(devs)}

\* SettingsWindow.apply_settings
ApplySettings(in_name, out_name, rate, size) ==
    /\ settings' = [settings EXCEPT !.input_device = in_name, !.output_device = out_name,
                                    !.sample_rate = rate, !.buffer_size = size]
    /\ IF GetDeviceByName(in_name, FALSE) # NoDevice /\ GetDeviceByName(out_name, TRUE) # NoDevice
       THEN /\ sample_rate' = rate
            /\ buffer_size' = size
            /\ Call("apply_settings", <<"reconnect">>)
       ELSE /\ UNCHANGED <<sample_rate, buffer_size>>
            /\ Call("apply_settings", << >>)
    /\ poll' = DefaultPoll
    /\ UNCHANGED <<lookup, appVars, host, dmVars, running, stream_in, stream_out, audio_thread_alive,
                   channels, input_device, output_device, cbVars, was_running>>

\* hot-plug: the host presents another device set
HostChange ==
    /\ host' \in HostConfigs \ {host}
    /\ UNCHANGED <<lookup, appVars, dmVars, settings, engVars, cbVars, ctlVars, histVars>>

\* ------------------------------------------------------------ callbacks
\* A queue.Queue operation is one atomic step (it runs under the queue's
\* mutex).  put(x, block): with block=False it never waits, it appends or
\* raises queue.Full; a blocking put waits for room.
QueuePutReady(q, block) == block => Len(q) < QueueMaxSize

\* Variant: put(in_data) with the default block=True, which waits for room.
InputPutBlocking == TRUE

\* the block argument of the two put calls of input_callback and of the get of
\* output_callback
InputPutBlock == FALSE
OutputGetBlock == FALSE

\* Variant: a callback that met an empty or a full queue ends its stream.
CallbackStopsOnError(outcome) == IF outcome \in {"put", "frame"} THEN "paContinue" ELSE "paAbort"

\* The code a callback returns to the subsystem, lines 142, 145, 156, 159 and
\* 163, by what happened in it: "put" and "frame" for a frame stored or taken,
\* "silence" for queue.Empty, "swallowed" for an error of the eviction or of
\* the second put.
CallbackReturnCode(outcome) == "paContinue"

\* the subsystem goes on calling a stream's callback while it returns paContinue
Returned(streams, sid, code) == [streams EXCEPT ![sid].active = (code = "paContinue")]

\* Variant: queue.Full is swallowed and the new frame is dropped.
InputFullDropsNewest(streams, sid, frame) == streams

\* except queue.Full of input_callback: the callback goes on to evict one frame
\* and to put the new one again
InputFullHandler(streams, sid, frame) ==
    [streams EXCEPT ![sid].pc = "full", ![sid].frame = frame]

\* input_callback, line 133: put(block=False); queue.Full leads to line 137
InputCallback(sid, cap) ==
    /\ pa_streams[sid].kind = "in" /\ pa_streams[sid].active
    /\ pa_streams[sid].pc = "idle"
    /\ captured < cap
    /\ QueuePutReady(audio_buffer, InputPutBlock)
    /\ captured' = captured + 1
    /\ IF Len(audio_buffer) < QueueMaxSize
       THEN /\ audio_buffer' = QueuePut(audio_buffer, captured + 1)
            /\ pa_streams' = Returned(pa_streams, sid, CallbackReturnCode("put"))
       ELSE /\ pa_streams' = InputFullHandler(pa_streams, sid, captured + 1)
            /\ UNCHANGED audio_buffer
    /\ UNCHANGED <<lookup, appVars, host, dmVars, settings, engVars, played, taken, ctlVars, histVars>>

\* input_callback, line 137: get_nowait(); queue.Empty is swallowed by line 139
InputCallbackEvict(sid) ==
    /\ pa_streams[sid].pc = "full"
    /\ IF audio_buffer # << >>
       THEN /\ audio_buffer' = QueueGet(audio_buffer)
            /\ pa_streams' = [pa_streams EXCEPT ![sid].pc = "retry"]
       ELSE /\ pa_streams' = Returned([pa_streams EXCEPT ![sid].pc = "idle", ![sid].frame = 0],
                                       sid, CallbackReturnCode("swallowed"))
            /\ UNCHANGED audio_buffer
    /\ UNCHANGED <<lookup, appVars, host, dmVars, settings, engVars, captured, played, taken, ctlVars, histVars>>

\* input_callback, line 138: put(block=False); queue.Full is swallowed by line 139
InputCallbackRetry(sid) ==
    /\ pa_streams[sid].pc = "retry"
    /\ QueuePutReady(audio_buffer, InputPutBlock)
    /\ IF Len(audio_buffer) < QueueMaxSize
       THEN /\ audio_buffer' = QueuePut(audio_buffer, pa_streams[sid].frame)
            /\ pa_streams' = Returned([pa_streams EXCEPT ![sid].pc = "idle", ![sid].frame = 0],
                                       sid, CallbackReturnCode("put"))
       ELSE /\ UNCHANGED audio_buffer
            /\ pa_streams' = Returned([pa_streams EXCEPT ![sid].pc = "idle", ![sid].frame = 0],
                                       sid, CallbackReturnCode("swallowed"))
    /\ UNCHANGED <<lookup, appVars, host, dmVars, settings, engVars, captured, played, taken, ctlVars, histVars>>

\* output_callback, lines 154-159.  `played` keeps what the callback was given
\* (the frame_count and channel count of its stream, the head of the buffer, 0
\* for an empty buffer) and what it returned.  Its field `last` is the frame
\* most recently returned by a playback callback, 0 before the first one.
OutputCallback(sid) ==
    /\ pa_streams[sid].kind = "out" /\ pa_streams[sid].active
    /\ OutputGetBlock => audio_buffer # << >>
    /\ IF audio_buffer # << >>
       THEN /\ played' = [kind |-> "frame", frame |-> Head(audio_buffer),
                          last |-> Head(audio_buffer), bytes |-> 0,
                          code |-> CallbackReturnCode("frame"),
                          frame_count |-> pa_streams[sid].frames,
                          stream_channels |-> pa_streams[sid].channels,
                          head |-> Head(audio_buffer)]
            /\ pa_streams' = Returned(pa_streams, sid, CallbackReturnCode("frame"))
            /\ audio_buffer' = QueueGet(audio_buffer)
            /\ taken' = taken + 1
       ELSE /\ played' = [kind |-> "silence", frame |-> 0, last |-> played.last,
                          bytes |-> SilenceBytes(pa_streams[sid].frames),
                          code |-> CallbackReturnCode("silence"),
                          frame_count |-> pa_streams[sid].frames,
                          stream_channels |-> pa_streams[sid].channels, head |-> 0]
            /\ pa_streams' = Returned(pa_streams, sid, CallbackReturnCode("silence"))
            /\ UNCHANGED <<audio_buffer, taken>>
    /\ UNCHANGED <<lookup, appVars, host, dmVars, settings, engVars, captured, ctlVars, histVars>>

\* ------------------------------------------------------------ routing
\* names the operating system's default output can have
OutputNames == {NameSpeakers, NameBlackHole2ch}

\* a command of the switch tool (SwitchAudioSource) succeeds or fails
Outcome(ok) == IF ok THEN "ok" ELSE "failed"

\* Variant: the commands of the switch tool are issued whether or not it was found.
UsesSwitchToolAlways == TRUE

\* `if self.audio_switch_available` of start_routing (lines 157 and 169) and of
\* stop_routing (line 209)
UsesSwitchTool == audio_switch_available

\* Variant: the default output is queried after the switch command.
StartRoutingSwitchFirst ==
    <<"find_blackhole", "switch_output", "query_output", "start", "start_routing_finish">>

\* start_routing, lines 155-180, in the order of the code: the query for the
\* current default output, the lookup of the loopback device, the switch
\* command, the engine's start(), the state update
StartRoutingSteps ==
    <<"query_output", "find_blackhole", "switch_output", "start", "start_routing_finish">>

\* Variant: the restore command is issued before the engine is stopped.
StopRoutingRestoreFirst == <<"stop_routing_finish", "stop">>

\* stop_routing, lines 205-217: the engine's stop(), then the restore command
\* and the state update
StopRoutingSteps == <<"stop", "stop_routing_finish">>

\* toggle_routing (the tray's menu entry)
ToggleRouting ==
    /\ IF routing_state = "STOPPED"
       THEN Call("start_routing", StartRoutingSteps)
       ELSE Call("stop_routing", StopRoutingSteps)
    /\ session' = [NoSession EXCEPT !.default_at_entry = os_output,
                                    !.clean = session.clean,
                                    !.original = session.original,
                                    !.query_at_start = IF routing_state = "STOPPED" THEN "none"
                                                       ELSE session.query]
    /\ poll' = DefaultPoll
    /\ UNCHANGED <<lookup, routing_state, previous_output_device, audio_switch_available,
                   os_output, host, dmVars, settings, engVars, cbVars, was_running>>

\* start_routing, lines 157-161: get_current_output_device returns the name of
\* the default output, or (None, None) when the tool fails
QueryOutput ==
    /\ stack # << >> /\ Top = "query_output"
    /\ IF UsesSwitchTool
       THEN \E ok \in BOOLEAN :
               /\ previous_output_device' = IF ok THEN os_output ELSE previous_output_device
               /\ session' = [session EXCEPT !.query = Outcome(ok),
                                              !.clean = (session.clean /\ ok)]
       ELSE UNCHANGED <<previous_output_device, session>>
    /\ Return
    /\ UNCHANGED <<lookup, routing_state, audio_switch_available, os_output, host, dmVars,
                   settings, engVars, cbVars, was_running, exc, ret, histVars>>

\* start_routing, lines 164-166; the ValueError goes to the except clause of
\* lines 192-200, which reports it and returns
FindBlackhole ==
    /\ stack # << >> /\ Top = "find_blackhole"
    /\ IF GetDefaultBlackholeDevice = NoDevice
       THEN /\ stack' = << >>
            /\ session' = [session EXCEPT !.error = "ValueError_blackhole"]
       ELSE Return /\ UNCHANGED session
    /\ UNCHANGED <<lookup, routing_state, previous_output_device, audio_switch_available,
                   os_output, host, dmVars, settings, engVars, cbVars, was_running, exc, ret,
                   histVars>>

\* start_routing, lines 169-174: set_output_device(blackhole_device['name'])
SwitchOutput ==
    /\ stack # << >> /\ Top = "switch_output"
    /\ IF UsesSwitchTool /\ GetDefaultBlackholeDevice # NoDevice
       THEN \E ok \in BOOLEAN :
               /\ os_output' = IF ok THEN GetDefaultBlackholeDevice.name ELSE os_output
               /\ session' = [session EXCEPT !.switch = Outcome(ok),
                                              !.clean = (session.clean /\ ok),
                                              !.default_at_switch = os_output,
                                              !.engine_at_switch = session.engine]
       ELSE UNCHANGED <<os_output, session>>
    /\ Return
    /\ UNCHANGED <<lookup, routing_state, previous_output_device, audio_switch_available,
                   host, dmVars, settings, engVars, cbVars, was_running, exc, ret, histVars>>

\* start_routing, lines 177-200: after self.audio_engine.start() (its result is
\* not looked at) the state becomes RUNNING; an error of start() goes to the
\* except clause, which reports it and returns
StartRoutingFinish ==
    /\ stack # << >> /\ Top = "start_routing_finish"
    /\ IF exc # "none"
       THEN /\ session' = [session EXCEPT !.engine = "failed", !.error = exc]
            /\ exc' = "none"
            /\ UNCHANGED routing_state
       ELSE /\ session' = [session EXCEPT !.engine = IF ret = "True" THEN "started" ELSE "not_started"]
            /\ routing_state' = "RUNNING"
            /\ UNCHANGED exc
    /\ Return
    /\ UNCHANGED <<lookup, previous_output_device, audio_switch_available, os_output, host,
                   dmVars, settings, engVars, cbVars, was_running, ret, histVars>>

\* stop_routing, lines 209-217: set_output_device(self.previous_output_device)
\* when there is one, then the state becomes STOPPED
StopRoutingFinish ==
    /\ stack # << >> /\ Top = "stop_routing_finish"
    /\ IF UsesSwitchTool /\ previous_output_device # NoName
       THEN \E ok \in BOOLEAN :
               /\ os_output' = IF ok THEN previous_output_device ELSE os_output
               /\ session' = [session EXCEPT !.restore = Outcome(ok),
                                              !.clean = (session.clean /\ ok),
                                              !.running_at_restore = running]
       ELSE UNCHANGED <<os_output, session>>
    /\ routing_state' = "STOPPED"
    /\ Return
    /\ UNCHANGED <<lookup, previous_output_device, audio_switch_available, host, dmVars,
                   settings, engVars, cbVars, was_running, exc, ret, histVars>>

\* the user, or another program, makes another device the default output
\* while no handler runs
ExternalOutputChange ==
    /\ stack = << >>
    /\ os_output' \in OutputNames \ {os_output}
    /\ session' = [session EXCEPT !.clean = FALSE]
    /\ UNCHANGED <<lookup, routing_state, previous_output_device, audio_switch_available,
                   host, dmVars, settings, engVars, cbVars, ctlVars, histVars>>

\* ------------------------------------------------------ catalog lookups
\* a call of get_default_blackhole_device
LookupBlackhole ==
    /\ lookup' = [fn |-> "blackhole", name |-> NoName, output |-> FALSE,
                  result |-> GetDefaultBlackholeDevice]
    /\ UNCHANGED <<appVars, host, dmVars, settings, engVars, cbVars, ctlVars, histVars>>

\* a call of get_default_output_device
LookupOutput ==
    /\ lookup' = [fn |-> "output", name |-> NoName, output |-> TRUE,
                  result |-> GetDefaultOutputDevice]
    /\ UNCHANGED <<appVars, host, dmVars, settings, engVars, cbVars, ctlVars, histVars>>

\* a call of get_device_by_name(name, output)
LookupByName(name, output) ==
    /\ lookup' = [fn |-> "by_name", name |-> name, output |-> output,
                  result |-> GetDeviceByName(name, output)]
    /\ UNCHANGED <<appVars, host, dmVars, settings, engVars, cbVars, ctlVars, histVars>>

\* ------------------------------------------------------- specifications
\* the steps of start() and stop()
StartStopStep ==
    \/ StartEntry \/ OpenInputStream \/ OpenOutputStream \/ StartFinish
    \/ StopEntry \/ CloseInputStream \/ CloseOutputStream \/ ClearBuffer

ControlStep ==
    \/ StartStopStep
    \/ ReconnectEntry \/ ReconnectSleep \/ ReconnectReturn

\* calls on the AudioEngine object
EngineCall ==
    \/ CallStart \/ CallStop \/ CallReconnect
    \/ \E d \in InputDescriptors : SetInputDevice(d)
    \/ \E d \in OutputDescriptors : SetOutputDevice(d)
    \/ \E n \in BufferSizes : SetBufferSize(n)
    \/ \E r \in SampleRates : SetSampleRate(r)

\* handlers of the application and of its settings window
AppCall ==
    \/ CheckDevices \/ ReloadDevices \/ RefreshDevices
    \/ \E i \in ComboTexts(input_devices), o \in ComboTexts(output_devices),
          r \in SampleRates, n \in {DefaultBufferSize} : ApplySettings(i, o, r, n)

Callback(cap) ==
    \/ \E sid \in StreamIds : InputCallback(sid, cap)
    \/ \E sid \in StreamIds : InputCallbackEvict(sid)
    \/ \E sid \in StreamIds : InputCallbackRetry(sid)
    \/ \E sid \in StreamIds : OutputCallback(sid)

\* The callbacks while fewer than QueueMaxSize frames are delivered: no put
\* finds the buffer full, so the queue.Full steps of input_callback do not occur.
CallbackBelowCapacity(cap) ==
    \/ \E sid \in StreamIds : InputCallback(sid, cap)
    \/ \E sid \in StreamIds : OutputCallback(sid)

\* The engine under every sequence of calls on it, with the callbacks of its
\* streams delivering a few frames, on the device set found at construction.
\* The full buffer is the subject of SpecStream.
Next ==
    \/ ControlStep
    \/ EngineCall
    \/ CallbackBelowCapacity(MaxFrames)

Spec == Init /\ [][Next]_vars

\* The engine and the device catalog under start() and stop() and under the
\* application's device poll, reload and settings window, while devices come
\* and go.  The callbacks touch only the transfer buffer and are left to the
\* other two specifications.
NextApp ==
    \/ ControlStep
    \/ CallStart \/ CallStop
    \/ AppCall
    \/ HostChange

SpecApp == Init /\ [][NextApp]_vars

\* One device set, many frames: the callbacks against start/stop/reconnect.
NextStream ==
    \/ ControlStep
    \/ CallStart \/ CallStop \/ CallReconnect
    \/ Callback(MaxStreamFrames)

SpecStream == Init /\ [][NextStream]_vars

\* the steps of start_routing and stop_routing around the engine's start and stop
RoutingStep ==
    \/ QueryOutput \/ FindBlackhole \/ SwitchOutput \/ StartRoutingFinish
    \/ StopRoutingFinish

\* The application's routing sessions: the tray's toggle, the device poll and
\* reload, on a host whose devices and default output change, with and
\* without the switch tool.
InitRouting == InitFrom(HostConfigs, BOOLEAN, {NameSpeakers})

NextRouting ==
    \/ ControlStep
    \/ RoutingStep
    \/ ToggleRouting
    \/ CheckDevices \/ ReloadDevices
    \/ HostChange
    \/ ExternalOutputChange

SpecRouting == InitRouting /\ [][NextRouting]_vars

\* Routing sessions with the callbacks of their streams delivering a few
\* frames: the tray's toggle and the reload of the devices, with and without
\* the switch tool.
InitSession == InitFrom(HostConfigs, BOOLEAN, {NameSpeakers})

NextSession ==
    \/ ControlStep
    \/ RoutingStep
    \/ ToggleRouting
    \/ ReloadDevices
    \/ CallbackBelowCapacity(MaxFrames)

SpecSession == InitSession /\ [][NextSession]_vars

\* start() and stop() on every device set of fewer than MaxDevices devices,
\* with every pair of device names, or none, stored in the settings.
ResolveHosts == {h \in CatalogHosts : Len(h) < MaxDevices}
StoredNames == CatalogNames \cup {NoName}

InitResolve == InitStored(ResolveHosts, {TRUE}, {NameSpeakers}, StoredNames, StoredNames)

NextResolve ==
    \/ StartStopStep
    \/ CallStart \/ CallStop

SpecResolve == InitResolve /\ [][NextResolve]_vars

\* The catalog's lookups on every device set of up to MaxDevices devices,
\* enumerated completely at construction.
InitCatalog == InitFrom(CatalogHosts, {TRUE}, {NameSpeakers})

NextCatalog ==
    \/ LookupBlackhole
    \/ LookupOutput
    \/ \E n \in CatalogNames, o \in BOOLEAN : LookupByName(n, o)

SpecCatalog == InitCatalog /\ [][NextCatalog]_vars

\* ----------------------------------------------------------------- claims
Idle == stack = << >>
AllFree == \A i \in StreamIds : pa_streams[i] = NoStream
CaptureIdle == \A i \in StreamIds : pa_streams[i].pc = "idle"

\* C1: after any sequence of start, stop, reconnect_devices and set_* calls the
\* audio subsystem has at most one capture stream and at most one playback
\* stream of the engine open, at every moment.
C1_AtMostOneStreamPair ==
    /\ Cardinality(OpenStreams("in")) <= 1
    /\ Cardinality(OpenStreams("out")) <= 1

\* a set_* call on a running engine has rebuilt the stream pair
C1_Witness ==
    /\ Idle /\ op = "set_buffer_size" /\ pre_running /\ running
    /\ Cardinality(OpenStreams("in")) = 1 /\ Cardinality(OpenStreams("out")) = 1

\* C2: under every interleaving of the capture and playback callbacks the
\* transfer buffer holds at most QueueMaxSize (8) frames, and every step of a
\* capture callback can be taken whatever the buffer holds and wherever the
\* playback callback is: it never waits for the consumer.
C2_BoundedAndNonBlocking ==
    /\ Len(audio_buffer) <= QueueMaxSize
    /\ \A sid \in StreamIds :
        /\ (pa_streams[sid].kind = "in" /\ pa_streams[sid].active /\ pa_streams[sid].pc = "idle"
              /\ captured < MaxStreamFrames) => ENABLED InputCallback(sid, MaxStreamFrames)
        /\ pa_streams[sid].pc = "full" => ENABLED InputCallbackEvict(sid)
        /\ pa_streams[sid].pc = "retry" => ENABLED InputCallbackRetry(sid)

\* the capture callback found the buffer full while a playback stream is open
C2_Witness ==
    /\ Len(audio_buffer) = QueueMaxSize
    /\ \E sid \in StreamIds : pa_streams[sid].pc = "full"
    /\ OpenStreams("out") # {}

\* C3: drop-oldest.  Frames are numbered in push order.  Once the capture
\* callback has pushed n >= QueueMaxSize + 1 frames and nothing has been popped
\* (no playback callback, no emptying by _close_streams), the buffer holds
\* exactly the QueueMaxSize most recently pushed frames n-7..n in push order;
\* for n = QueueMaxSize + 1 the one frame missing is frame 1, the first pushed.
C3_DropOldest ==
    (taken = 0 /\ CaptureIdle /\ captured >= QueueMaxSize + 1)
        => audio_buffer = [i \in 1..QueueMaxSize |-> captured - QueueMaxSize + i]

\* capacity+1 frames pushed and none popped: frame 1 is gone, 2..9 remain
C3_Witness ==
    /\ taken = 0 /\ CaptureIdle /\ captured = QueueMaxSize + 1
    /\ Len(audio_buffer) = QueueMaxSize
    /\ Head(audio_buffer) = 2
    /\ audio_buffer[QueueMaxSize] = QueueMaxSize + 1

\* C4: a playback callback can always run (it does not wait for a frame); on an
\* empty buffer it returns frame_count x channels x 2 zero bytes with
\* paContinue, on a non-empty buffer it returns the frame at the head.
C4_PlaybackCallback ==
    /\ \A sid \in StreamIds :
         (pa_streams[sid].kind = "out" /\ pa_streams[sid].active) => ENABLED OutputCallback(sid)
    /\ (played.kind # "none" /\ played.head = 0) =>
         /\ played.kind = "silence"
         /\ played.bytes = played.frame_count * played.stream_channels * SampleWidth
         /\ played.code = "paContinue"
    /\ (played.kind # "none" /\ played.head # 0) =>
         /\ played.kind = "frame"
         /\ played.frame = played.head
         /\ played.code = "paContinue"

\* a playback callback of a 256-frame stream has run on an empty buffer
C4_Witness ==
    /\ played.kind = "silence"
    /\ played.frame_count = 256
    /\ played.bytes = 1024

\* C5: when the error of a failed py_audio.open reaches the caller of start()
\* (start() has returned to its caller, or to reconnect_devices(), which
\* called it), the subsystem holds no stream of the engine, both handles are
\* empty, the engine is not running and the buffer is empty.
C5_OpenFailureTearsDown ==
    (exc = "StreamOpenError" /\ (stack = << >> \/ Top = "reconnect_return"))
        => /\ AllFree
           /\ stream_in = NoHandle /\ stream_out = NoHandle
           /\ ~running
           /\ audio_buffer = << >>

\* the playback stream failed to open after the capture stream had been opened
\* and had delivered a frame
C5_Witness ==
    /\ Idle /\ op = "start" /\ exc = "StreamOpenError"
    /\ opened = 1 /\ captured = 1 /\ taken = 1 /\ played = NoPlayed
    /\ AllFree

\* C6 as stated: whenever start() has returned on a device set without a
\* loopback device and with no input preference, it raised the
\* device-not-found error, opened no stream and the engine is not running.
C6_AsStated ==
    (Idle /\ op = "start" /\ blackhole_devices = << >> /\ settings.input_device = NoName)
        => (exc = "ValueError_input" /\ opened = 0 /\ ~running)

\* C6 amended: the same, for a start() called on an engine that is not running
\* (on a running engine start() returns False at once and raises nothing).
C6_NoLoopbackDevice ==
    (Idle /\ op = "start" /\ ~pre_running
          /\ blackhole_devices = << >> /\ settings.input_device = NoName)
        => (exc = "ValueError_input" /\ opened = 0 /\ ~running /\ AllFree)

\* start() was called while the host offers only the speakers
C6_Witness ==
    /\ Idle /\ op = "start" /\ ~pre_running
    /\ blackhole_devices = << >> /\ input_devices = << >> /\ output_devices # << >>
    /\ settings.input_device = NoName
    /\ exc = "ValueError_input"

\* C7: a start() that returned True left the engine running, and whenever the
\* engine is running both handles name open streams that were opened with the
\* same sample rate, channel count and frames-per-buffer.
C7_MatchingStreams ==
    /\ (Idle /\ op = "start" /\ ret = "True") => running
    /\ running =>
         /\ stream_in # NoHandle /\ stream_out # NoHandle
         /\ pa_streams[stream_in].kind = "in" /\ pa_streams[stream_out].kind = "out"
         /\ pa_streams[stream_in].rate = pa_streams[stream_out].rate
         /\ pa_streams[stream_in].channels = pa_streams[stream_out].channels
         /\ pa_streams[stream_in].frames = pa_streams[stream_out].frames

\* set_sample_rate(44100) on a running engine has rebuilt the pair at 44100
C7_Witness ==
    /\ Idle /\ op = "set_sample_rate" /\ pre_running /\ running
    /\ pa_streams[stream_in].rate = 44100
    /\ pa_streams[stream_out].rate = 44100

\* the engine's own state and what its streams and buffer hold
EngineState == <<engVars, audio_buffer, pa_streams>>

\* C8: every stop() returns without an error and leaves the engine not
\* running, both handles empty, no stream open and the buffer empty (so a
\* second stop() ends in the state of the first); and no step of a stop() that
\* was called on an engine that is not running changes the engine's state.
C8_StopIdempotent ==
    /\ [](Idle /\ op = "stop" =>
            /\ exc = "none"
            /\ ~running /\ ~audio_thread_alive
            /\ stream_in = NoHandle /\ stream_out = NoHandle
            /\ AllFree
            /\ audio_buffer = << >>)
    /\ [][(op' = "stop" /\ ~pre_running') => UNCHANGED EngineState]_vars

\* a stop() on a stopped engine, after frames have gone through, has returned
C8_Witness ==
    /\ Idle /\ op = "stop" /\ ~pre_running
    /\ captured > 0
    /\ ~running /\ audio_buffer = << >>

\* C9: reconnect_devices() called on an engine that is not running returns
\* True, opens no stream and leaves the engine not running; none of its steps
\* changes the handles, the streams, the devices, the parameters or the buffer.
C9_ReconnectIdle ==
    /\ [](Idle /\ op = "reconnect" /\ ~pre_running =>
            /\ ret = "True" /\ exc = "none"
            /\ opened = 0
            /\ ~running /\ AllFree)
    /\ [][(op' = "reconnect" /\ ~pre_running') => UNCHANGED EngineState]_vars

\* reconnect_devices() has returned True on an engine that was not running
\* and that has devices from an earlier set_input_device
C9_Witness ==
    /\ Idle /\ op = "reconnect" /\ ~pre_running /\ ret = "True"
    /\ input_device # NoDevice
    /\ ~running

\* C10: a poll made while the engine is running and the host's device set
\* differs from the cached lists detects the change (and so goes on to
\* reconnect_devices()).
C10_PollDetects ==
    (op = "check_devices" /\ pre_running /\ poll.stale) => poll.detected

\* the step is one call of check_devices (check_device_changes and what it does
\* to the catalog), from the state before it to the state after it
CheckStep == stack = << >> /\ host' = host /\ op' = "check_devices" /\ poll'.kind = "check"

\* C11: of two consecutive calls of check_device_changes, with no handler's
\* refresh between them, at most the first reports a change: the second
\* returns False.
C11_SecondCheckFalse ==
    (poll.kind = "check" /\ poll.prev_kind = "check") => ~(poll.prev_detected /\ poll.detected)

\* C12: the check_device_changes that follows a completed refresh whose
\* enumeration differs from the lists cached before it returns True.
C12_TrueAfterChangingRefresh ==
    (poll.kind = "check" /\ poll.prev_kind = "refresh" /\ poll.prev_changed) => poll.detected

C14_EnumerationErrorPropagates ==
    (op = "refresh_devices" /\ poll.kind = "refresh" /\ poll.failed) => exc = "EnumerationError"

\* positions in the host's enumeration
Positions(h, kind) ==
    {i \in 1..Len(h) : CASE kind = "input" -> h[i].max_input_channels > 0
                         [] kind = "output" -> h[i].max_output_channels > 0
                         [] OTHER -> TRUE}
MarkerPositions(h) == {i \in 1..Len(h) : \E w \in 1..Len(h[i].name) : h[i].name[w] = "BlackHole"}
First(positions) == CHOOSE i \in positions : \A j \in positions : i <= j

\* C15: get_default_blackhole_device returns None exactly when no enumerated
\* device has the word "BlackHole" in its name, and otherwise the first such
\* device of the enumeration.
C15_DefaultLoopback ==
    lookup.fn = "blackhole" =>
        /\ lookup.result = NoDevice <=> MarkerPositions(host) = {}
        /\ MarkerPositions(host) # {} =>
              lookup.result = Descriptor(host, First(MarkerPositions(host)))

\* two loopback devices after another device: the lookup gave the first of them
C15_Witness ==
    /\ lookup.fn = "blackhole"
    /\ MarkerPositions(host) = {2, 3}
    /\ lookup.result.index = 1

\* C16: get_default_output_device returns the first output device without
\* "BlackHole" in its name; when every output device is a loopback device, the
\* first output device; None exactly when there is no output device.
C16_DefaultOutput ==
    lookup.fn = "output" =>
        LET outs == Positions(host, "output")
            physical == outs \ MarkerPositions(host)
        IN /\ lookup.result = NoDevice <=> outs = {}
           /\ physical # {} => lookup.result = Descriptor(host, First(physical))
           /\ (outs # {} /\ physical = {}) => lookup.result = Descriptor(host, First(outs))

\* a loopback output and a loopback input enumerated before a physical
\* output: the lookup gave the physical output
C16_Witness ==
    /\ lookup.fn = "output"
    /\ Positions(host, "output") = {1, 3}
    /\ MarkerPositions(host) = {1, 2}
    /\ lookup.result.index = 2

\* C17: get_device_by_name(name, output) returns the first device of the
\* enumeration that is of the requested kind and whose name is exactly the
\* given name, and None when the requested kind has no device of that name.
C17_DeviceByName ==
    lookup.fn = "by_name" =>
        LET named == {i \in Positions(host, IF lookup.output THEN "output" ELSE "input") :
                          host[i].name = lookup.name}
        IN /\ lookup.result = NoDevice <=> named = {}
           /\ named # {} => lookup.result = Descriptor(host, First(named))

\* an output was asked for by a name that an input-only device enumerated
\* earlier and a device named in lower case also have: the lookup gave the
\* later output device
C17_Witness ==
    /\ lookup.fn = "by_name" /\ lookup.output /\ lookup.name = NameBlackHole2ch
    /\ Len(host) = 3
    /\ host[1] = HostDev(NameBlackHole2ch, 2, 0)
    /\ host[2] = HostDev(NameLowerCase, 0, 2)
    /\ host[3] = HostDev(NameBlackHole2ch, 0, 2)
    /\ lookup.result.index = 2

Elements(devs) == {devs[i] : i \in 1..Len(devs)}

\* C18: whenever the engine opens a stream, the descriptor it opens it with is
\* an element of the catalog's current list of that kind (the lists of the
\* most recent refresh) and the stream is bound to that descriptor's index: a
\* descriptor from elsewhere, such as a stale one handed to set_input_device or
\* set_output_device, opens no stream.
C18_OpensFromSnapshot ==
    [][/\ (stream_in' # stream_in /\ stream_in' # NoHandle) =>
            /\ input_device \in Elements(input_devices)
            /\ pa_streams'[stream_in'].device = input_device.index
       /\ (stream_out' # stream_out /\ stream_out' # NoHandle) =>
            /\ output_device \in Elements(output_devices)
            /\ pa_streams'[stream_out'].device = output_device.index]_vars

\* set_output_device with a descriptor of the speakers has rebuilt the pair on
\* a host where the speakers are device 1: the playback stream is on device 1
C18_Witness ==
    /\ Idle /\ op = "set_output_device" /\ pre_running /\ running
    /\ Len(host) = 2
    /\ settings.output_device = NameSpeakers
    /\ output_device \in Elements(output_devices)
    /\ pa_streams[stream_out].device = 1


\* C19: in every routing session the command that switches the operating
\* system's default output to the loopback device is issued only after the
\* engine's start() has succeeded; when the engine fails to start, no switch
\* command has been issued.
C19_SwitchAfterEngineStart ==
    /\ session.switch # "none" => session.engine_at_switch = "started"
    /\ session.engine = "failed" => session.switch = "none"

\* C20: in every routing session with switching enabled, the query for the
\* current default output has been made when the switch command is issued, and
\* the name it captured is the device that was the default when the switch
\* command was issued.
C20_CaptureBeforeSwitch ==
    (audio_switch_available /\ session.switch # "none") =>
        /\ session.query # "none"
        /\ session.query = "ok" => previous_output_device = session.default_at_switch

\* a session whose query captured the speakers and whose switch command then
\* made the loopback device the default output
C20_Witness ==
    /\ op = "start_routing"
    /\ audio_switch_available
    /\ session.query = "ok" /\ session.switch = "ok"
    /\ session.default_at_switch = NameSpeakers
    /\ previous_output_device = NameSpeakers
    /\ os_output = NameBlackHole2ch
    /\ routing_state = "RUNNING"


\* the step that issues the restore command of stop_routing
RestoreIssued == session.restore = "none" /\ session'.restore # "none"

\* C21: the restore of the previous default output is issued only after the
\* engine is fully stopped: when the restore command is issued the engine is
\* not running, both streams are closed and the transfer buffer is empty.
C21_RestoreAfterFullStop ==
    [][RestoreIssued =>
          /\ ~running /\ ~audio_thread_alive
          /\ stream_in = NoHandle /\ stream_out = NoHandle
          /\ AllFree
          /\ audio_buffer = << >>]_vars

\* the restore command has been issued in a session that captured frames, after
\* the close of the streams emptied a buffer that still held some
C21_Witness ==
    /\ op = "stop_routing"
    /\ session.restore = "ok"
    /\ pre_running
    /\ captured > 0
    /\ taken > 0 /\ played.kind = "none"
    /\ os_output = NameSpeakers


\* C22: after the restore step of stop_routing completes the captured
\* previous-output name is cleared, whether or not the switch-back command
\* succeeded, so no captured name survives from one routing session into the
\* next.
C22_CapturedNameCleared ==
    (op = "stop_routing" /\ stack = << >>) => previous_output_device = NoName


\* C23: when the query for the current default output fails at the start of a
\* session, the switch to the loopback device is still issued, and when that
\* session is stopped no restore command is issued.
C23_FailedQuerySkipsRestore ==
    /\ (op = "start_routing" /\ session.query = "failed" /\ session.engine # "none")
          => session.switch # "none"
    /\ (op = "stop_routing" /\ session.query_at_start = "failed")
          => session.restore = "none"


\* the errors start_routing can end with: the loopback device is missing from
\* the catalog, or the engine's start() raised
StartRoutingErrors == {"ValueError_blackhole", "ValueError_input", "ValueError_output", "StreamOpenError"}

\* C24: when the switch tool is unavailable no query, switch or restore
\* command is issued in any routing session and no name is ever captured;
\* start_routing and stop_routing end as they do with the tool present: a
\* start without error leaves the engine running with both streams open and
\* the state RUNNING, a start with an error leaves the engine stopped and the
\* state as it was, and a stop leaves the engine stopped, no stream open and
\* the state STOPPED.
C24_NoToolNoCommands ==
    /\ ~audio_switch_available =>
          /\ session.query = "none" /\ session.switch = "none" /\ session.restore = "none"
          /\ previous_output_device = NoName
    /\ (op = "start_routing" /\ Idle /\ session.error = "none") =>
          /\ routing_state = "RUNNING"
          /\ running /\ stream_in # NoHandle /\ stream_out # NoHandle
    /\ (op = "start_routing" /\ Idle /\ session.error # "none") =>
          /\ session.error \in StartRoutingErrors
          /\ routing_state = "STOPPED"
          /\ ~running /\ AllFree
    /\ (op = "stop_routing" /\ Idle) =>
          /\ routing_state = "STOPPED"
          /\ ~running /\ AllFree

\* without the switch tool a session was started, ran, and has been stopped
C24_Witness ==
    /\ ~audio_switch_available
    /\ op = "stop_routing" /\ Idle
    /\ pre_running
    /\ routing_state = "STOPPED"
    /\ ~running /\ AllFree


SetOps == {"set_sample_rate", "set_buffer_size", "set_input_device", "set_output_device"}

\* the open pair has the stored sample rate and buffer size and is on the
\* devices the stored names name
StreamsUseSettings ==
    /\ stream_in # NoHandle /\ stream_out # NoHandle
    /\ pa_streams[stream_in].kind = "in" /\ pa_streams[stream_out].kind = "out"
    /\ pa_streams[stream_in].rate = settings.sample_rate
    /\ pa_streams[stream_out].rate = settings.sample_rate
    /\ pa_streams[stream_in].frames = settings.buffer_size
    /\ pa_streams[stream_out].frames = settings.buffer_size
    /\ settings.input_device # NoName => pa_streams[stream_in].name = settings.input_device
    /\ settings.output_device # NoName => pa_streams[stream_out].name = settings.output_device

\* the value a set_* call was given is in the engine's field and in the store
SetStored ==
    /\ op = "set_sample_rate" => settings.sample_rate = sample_rate
    /\ op = "set_buffer_size" => settings.buffer_size = buffer_size

\* C25 as stated: every set_* call on a running engine ends with a new stream
\* pair that uses the new value, and on an idle engine with the engine idle.
C25_AsStated ==
    (Idle /\ op \in SetOps) =>
        IF pre_running
        THEN running /\ opened = 2 /\ StreamsUseSettings
        ELSE ~running /\ AllFree

\* C25: each set_* call stores the new value and calls reconnect_devices().  On
\* an idle engine the value is stored and the engine stays idle.  On a running
\* engine the old pair is closed; when the restart succeeds the call returns
\* True and a new pair is open that uses the stored values, and when the
\* restart fails the call returns False and leaves the engine idle with no
\* stream open.  The parameters of an open stream never change.
C25_SetReconnects ==
    /\ []((Idle /\ op \in SetOps) =>
            /\ exc = "none"
            /\ SetStored
            /\ ~pre_running => (ret = "True" /\ opened = 0 /\ ~running /\ AllFree)
            /\ (pre_running /\ ret = "True") =>
                  /\ running /\ opened = 2
                  /\ Cardinality({i \in StreamIds : pa_streams[i] # NoStream}) = 2
                  /\ StreamsUseSettings
            /\ (pre_running /\ ret # "True") => (ret = "False" /\ ~running /\ AllFree))
    /\ [][\A i \in StreamIds :
             (pa_streams[i] # NoStream /\ pa_streams'[i] # NoStream) =>
                 /\ pa_streams'[i].rate = pa_streams[i].rate
                 /\ pa_streams'[i].frames = pa_streams[i].frames
                 /\ pa_streams'[i].channels = pa_streams[i].channels
                 /\ pa_streams'[i].device = pa_streams[i].device]_vars

\* set_buffer_size(256) on a running engine has rebuilt the pair with 256
\* frames per buffer
C25_Witness ==
    /\ Idle /\ op = "set_buffer_size" /\ pre_running /\ ret = "True" /\ running
    /\ opened = 2
    /\ pa_streams[stream_in].frames = 256
    /\ pa_streams[stream_out].frames = 256


\* C26: the capture callback and the playback callback return the continue
\* code on every invocation, also when the queue is full or empty or an error
\* is swallowed: no open stream has been stopped by its callback, and the last
\* playback callback returned paContinue.
C26_CallbacksContinue ==
    /\ \A i \in StreamIds : pa_streams[i] # NoStream => pa_streams[i].active
    /\ played.kind # "none" => played.code = "paContinue"

\* a playback callback found the buffer empty, then capture callbacks filled
\* the buffer and one more found it full; both streams are still called
C26_Witness ==
    /\ running /\ CaptureIdle
    /\ played.kind = "silence"
    /\ captured > QueueMaxSize
    /\ Len(audio_buffer) = QueueMaxSize
    /\ pa_streams[stream_in].active /\ pa_streams[stream_out].active


\* the handlers by which the user starts routing
UserStartOps == {"start", "start_routing"}

\* a step of start() that goes past the running check and resolves the devices
StartAttempt == stack # << >> /\ Top = "start" /\ ~running

\* C27: after a start attempt has failed because the loopback device is
\* missing, the engine is not running and has no stream open, and it stays so
\* until the user starts routing: a start attempt is made only by the user's
\* start, or inside a reconnect of an engine that was running when the handler
\* was entered, so neither the device poll nor a reconnect retries the failed
\* start.  A failed attempt reports one error: the ValueError of start() to
\* its caller, which reconnect_devices() turns into the result False, and no
\* second error replaces it.
C27_NoAutomaticRetry ==
    /\ [][StartAttempt => (op \in UserStartOps \/ pre_running)]_vars
    /\ [][(~running /\ running') => (op \in UserStartOps \/ pre_running)]_vars
    /\ [][(exc # "none" /\ exc' # "none") => exc' = exc]_vars
    /\ []((Idle /\ opened = 0 /\ input_device = NoDevice /\ op # "init") =>
            /\ ~running /\ AllFree
            /\ (op = "start" /\ ~pre_running) => (exc = "ValueError_input" /\ ret = "none")
            /\ (op # "start" /\ pre_running) => (exc = "none" /\ ret = "False"))

\* a start failed for the missing loopback device (the output device was
\* resolved, the input device was not); the device is back in the catalog, a
\* poll has detected a change and reconnected, and the engine is still idle
C27_Witness ==
    /\ Idle /\ op = "check_devices"
    /\ poll.detected /\ ret = "True"
    /\ input_device = NoDevice /\ output_device # NoDevice
    /\ GetDefaultBlackholeDevice # NoDevice
    /\ ~running /\ AllFree


\* the step that opens the first stream of the current handler
FirstOpen == opened = 0 /\ opened' = 1

\* C28: reconnect_devices() on a running engine stops the engine completely
\* before it opens a new stream: when the first new stream is opened the
\* engine is not running, no stream is open and the buffer is empty.  It then
\* starts with the stored preferences and never raises: it returns True with
\* the engine running on a new pair that uses the stored preferences, or
\* False with the engine not running and no stream open.
C28_ReconnectRunning ==
    /\ [][(op = "reconnect" /\ pre_running /\ FirstOpen) =>
             /\ ~running /\ ~audio_thread_alive
             /\ AllFree
             /\ audio_buffer = << >>]_vars
    /\ []((Idle /\ op = "reconnect" /\ pre_running) =>
             /\ exc = "none"
             /\ \/ /\ ret = "True"
                   /\ running /\ opened = 2
                   /\ Cardinality({i \in StreamIds : pa_streams[i] # NoStream}) = 2
                   /\ StreamsUseSettings
                \/ /\ ret = "False"
                   /\ ~running /\ AllFree
                   /\ stream_in = NoHandle /\ stream_out = NoHandle)

\* reconnect_devices() on a running engine whose buffer held captured frames
\* has returned True: the frames were drained by the stop, none was played
C28_Witness ==
    /\ Idle /\ op = "reconnect" /\ pre_running /\ ret = "True" /\ running
    /\ captured > 0 /\ taken > 0
    /\ played.kind = "none"
    /\ settings.output_device # NoName


\* _close_streams has closed the capture stream and has not yet emptied the queue
Closing == stack # << >> /\ Top \in {"close_out", "clear"}

\* C29: stop() drains the transfer buffer.  After stop() returns the buffer is
\* empty and no stream is open; while no stream is open the buffer is empty,
\* except inside _close_streams before its loop has emptied it; every buffered
\* frame was captured after the open pair was opened; and a frame handed to
\* playback was captured after the playing stream's pair was opened: no frame
\* of one session reaches the playback of a later one.
C29_NoFrameAcrossSessions ==
    /\ []((Idle /\ op = "stop") => (audio_buffer = << >> /\ AllFree /\ ~running))
    /\ []((AllFree /\ ~Closing) => audio_buffer = << >>)
    /\ [](\A k \in 1..Len(audio_buffer) : \A i \in StreamIds :
             pa_streams[i] # NoStream => audio_buffer[k] > pa_streams[i].since)
    /\ [][(played' # played /\ played'.kind = "frame") =>
             \A i \in StreamIds :
                 pa_streams[i].kind = "out" => played'.frame > pa_streams[i].since]_vars

\* in a later session, opened after frames of an earlier one were captured,
\* playback has been handed a frame of the later session while more are buffered
C29_Witness ==
    /\ running /\ stream_out # NoHandle
    /\ pa_streams[stream_out].since > 1
    /\ played.kind = "frame"
    /\ played.frame > pa_streams[stream_out].since
    /\ audio_buffer # << >>
    /\ taken > 2


\* C30: under every interleaving of the capture callback with the playback
\* callback, each frame delivered to the capture callback is inserted in the
\* transfer buffer: when a capture callback returns, its frame is the newest
\* frame of the buffer; and on a full buffer the frame that is discarded is
\* the oldest buffered one.
C30_EveryFrameInserted ==
    [][/\ (captured' = captured + 1 /\ CaptureIdle') =>
              (audio_buffer' # << >> /\ audio_buffer'[Len(audio_buffer')] = captured')
       /\ \A sid \in StreamIds :
            /\ (pa_streams[sid].pc # "idle" /\ pa_streams'[sid].pc = "idle") =>
                  /\ audio_buffer' # << >>
                  /\ audio_buffer'[Len(audio_buffer')] = pa_streams[sid].frame
            /\ (pa_streams[sid].pc = "full" /\ pa_streams'[sid].pc = "retry") =>
                  audio_buffer' = Tail(audio_buffer)]_vars


\* C31: start() called while the engine is running returns False and raises
\* no error; no step of it changes the engine's fields (running, the stream
\* handles, the resolved devices, the sample rate and buffer size), the open
\* streams or the contents of the transfer buffer, and it opens no stream.
C31_StartWhileRunning ==
    /\ []((Idle /\ op = "start" /\ pre_running) =>
            (ret = "False" /\ exc = "none" /\ opened = 0 /\ running))
    /\ [][(op' = "start" /\ pre_running' /\ stack' # stack) => UNCHANGED EngineState]_vars

\* start() has returned False on a running engine whose buffer holds frames
C31_Witness ==
    /\ Idle /\ op = "start" /\ pre_running /\ ret = "False"
    /\ running /\ stream_in # NoHandle /\ stream_out # NoHandle
    /\ audio_buffer # << >>
    /\ settings.output_device # NoName


\* the configured name is set and the catalog has no device of that name and kind
InputAbsent == settings.input_device # NoName /\ GetDeviceByName(settings.input_device, FALSE) = NoDevice
OutputAbsent == settings.output_device # NoName /\ GetDeviceByName(settings.output_device, TRUE) = NoDevice

\* C32: start() resolves each device by the configured name when one is set
\* and by the catalog's default only when none is set.  When the configured
\* input name is not in the catalog, start() raises the input-device error,
\* and when the input is found and the configured output name is not, the
\* no-output error; in both cases it opens no stream, leaves the engine not
\* running and has not taken the default device instead, also when a default
\* exists.
C32_ResolveByName ==
    (Idle /\ op = "start" /\ ~pre_running) =>
        /\ input_device = IF settings.input_device # NoName
                          THEN GetDeviceByName(settings.input_device, FALSE)
                          ELSE GetDefaultBlackholeDevice
        /\ output_device = IF settings.output_device # NoName
                           THEN GetDeviceByName(settings.output_device, TRUE)
                           ELSE GetDefaultOutputDevice
        /\ InputAbsent =>
              /\ exc = "ValueError_input"
              /\ input_device = NoDevice
              /\ opened = 0 /\ ~running /\ AllFree
        /\ (input_device # NoDevice /\ OutputAbsent) =>
              /\ exc = "ValueError_output"
              /\ output_device = NoDevice
              /\ opened = 0 /\ ~running /\ AllFree

\* start() has failed for a configured input name that the catalog lacks,
\* although the catalog has a default loopback device and a default output
C32_Witness ==
    /\ Idle /\ op = "start" /\ ~pre_running
    /\ settings.input_device = NameLowerCase /\ InputAbsent
    /\ settings.output_device = NoName
    /\ GetDefaultBlackholeDevice # NoDevice
    /\ GetDefaultBlackholeDevice.max_input_channels > 0
    /\ GetDefaultOutputDevice # NoDevice
    /\ exc = "ValueError_input"


\* the control operations of the application
AppOps == {"start_routing", "stop_routing", "check_devices", "reload_devices", "apply_settings"}

\* C33: after every control operation of the application completes, the
\* application's routing_state is RUNNING exactly when the engine is running.
C33_StateMatchesEngine ==
    (Idle /\ op \in AppOps) => (routing_state = "RUNNING" <=> running)


\* the step with which start_routing returns after an error
StartRoutingFails ==
    /\ op = "start_routing" /\ stack # << >> /\ stack' = << >>
    /\ session'.error # "none"

\* C34: when start_routing fails (the loopback device is missing or the
\* engine's start() raises), the operating system's default output is the
\* same when start_routing returns as it was when it was called, and
\* routing_state stays STOPPED.
C34_FailedStartKeepsOutput ==
    [][StartRoutingFails =>
          /\ os_output' = session.default_at_entry
          /\ routing_state' = "STOPPED"]_vars


\* C35: round trip of the default output.  With the switch tool available,
\* every tool command having succeeded and no external change of the default
\* output, when a stop_routing has returned the default output is the device
\* that was the default at construction, before routing was first started; and when that
\* device is the speakers, the captured previous-output name is never the
\* loopback device, which only the application's own switch can have made
\* the default.
C35_RoundTrip ==
    (audio_switch_available /\ session.clean) =>
        /\ (Idle /\ op = "stop_routing") => os_output = session.original
        /\ session.original = NameSpeakers => previous_output_device \in {NoName, NameSpeakers}


\* C36: when refresh_devices fails part-way (the query of the audio subsystem
\* raises), the catalog's input, output and loopback lists and its stored
\* hash are left as they were before the call.
C36_FailedRefreshKeepsCatalog ==
    [][(poll'.failed /\ poll' # poll) => UNCHANGED dmVars]_vars


\* the host's device set is the one whose hash the last completed refresh stored
HostAsRecorded ==
    GenerateDeviceHash(RefreshedInputs(host, NoFail), RefreshedOutputs(host, NoFail)) = last_device_hash

\* C37: check_device_changes returns True only when the host's device set
\* differs from the set recorded by the last successful refresh: with the
\* host's set as recorded every poll returns False, also after a refresh
\* that failed.
C37_NoFalseAlarm ==
    [][(CheckStep /\ HostAsRecorded) => ~poll'.detected]_vars


\* C38: whenever the engine opens a capture stream the device it binds to has
\* at least one input channel, and whenever it opens a playback stream the
\* device has at least one output channel; the default loopback device taken
\* when no input preference is set is an input-capable device.
C38_DevicesCapable ==
    /\ (stack # << >> /\ Top = "open_in") => input_device.max_input_channels > 0
    /\ (stack # << >> /\ Top = "open_out") => output_device.max_output_channels > 0
    /\ \A i \in StreamIds :
         /\ pa_streams[i].kind = "in" => host[pa_streams[i].device + 1].max_input_channels > 0
         /\ pa_streams[i].kind = "out" => host[pa_streams[i].device + 1].max_output_channels > 0
    /\ (settings.input_device = NoName /\ input_device # NoDevice) =>
          input_device.max_input_channels > 0


\* C39: every stream the engine has opened has had close() called on it by
\* the time stop() returns, also when stop_stream() raises: the engine never
\* drops its handle to a stream on which close() was not called, and after
\* stop() no handle and no open stream is left.
C39_EveryStreamClosed ==
    /\ ~close_skipped
    /\ (Idle /\ op = "stop") =>
          (stream_in = NoHandle /\ stream_out = NoHandle /\ AllFree)


\* a playback callback runs
PlaybackStep == \E sid \in StreamIds : OutputCallback(sid)

\* C40: under every interleaving of the two callbacks the non-silent frames
\* delivered by the playback callback are a subsequence of the frames received
\* by the capture callback, in the same order and none twice.  Frames are
\* numbered in the order of their capture: the buffered frames are in capture
\* order, all captured, all later than the frame delivered last; a playback
\* callback that delivers a frame delivers the oldest buffered one, which was
\* captured in the session of its stream and later than every frame delivered
\* before, and takes it out of the buffer.
C40_PlaybackInOrder ==
    /\ [](\A k \in 1..Len(audio_buffer) :
             /\ audio_buffer[k] \in (played.last + 1)..captured
             /\ \A j \in 1..(k - 1) : audio_buffer[j] < audio_buffer[k])
    /\ [][(PlaybackStep /\ played'.kind = "frame") =>
             /\ played'.frame = Head(audio_buffer)
             /\ played'.frame > played.last
             /\ played'.frame <= captured
             /\ \A i \in StreamIds :
                  pa_streams[i].kind = "out" => played'.frame > pa_streams[i].since
             /\ audio_buffer' = Tail(audio_buffer)
             /\ \A k \in 1..Len(audio_buffer') : audio_buffer'[k] > played'.frame]_vars

\* playback has delivered frames 2 and 3 of a session whose frame 1 was
\* discarded from the full buffer by a capture callback that interleaved with
\* it, and more frames wait in the buffer
C40_Witness ==
    /\ running /\ stream_out # NoHandle
    /\ played.kind = "frame" /\ played.frame = 3
    /\ taken = 2
    /\ captured > QueueMaxSize
    /\ Len(audio_buffer) >= 2

====
